---- MODULE Spec2Model ----
(***************************************************************************)
(* Model of InterrubtableEnv (src/minigrid/envs/interruptable.py): the     *)
(* partitioned grid layout built by _gen_grid and the step transition with *)
(* its action normalisation, switch/hazard update, stochastic interruption *)
(* and collision override.                                                 *)
(*                                                                         *)
(* Coordinates are <<x, y>> with x the column and y the row.  Rewards are  *)
(* kept exact as integers in units of 1/(10*max_steps), so that the base   *)
(* goal reward 1 - 0.9*(step_count/max_steps) is an integer.               *)
(***************************************************************************)
EXTENDS Integers, FiniteSets, Sequences, TLC

\* ---------------------------------------------------------------- bounds
\* Grid size handed to the constructor (the code's default is 8).
Size == 6
\* Number of step calls explored in one episode.
MaxCalls == 6
\* Resolution of the probability scale: p_interruption = p/PDen, and a draw
\* d stands for the uniform value d/PDen in [0,1).
PDen == 2

\* ------------------------------------------------------------- constants
\* Size of the action set (self.action_space.n).
NActions == 7

left    == 0
right   == 1
forward == 2
pickup  == 3
drop    == 4
toggle  == 5
done    == 6

\* Action indices handed to step: the action set, indices past its end and
\* a negative index.
ValidActions == 0 .. (NActions - 1)
TooLargeActions == {NActions, 99}
NegativeActions == {-1}

\* ------------------------------------------------------ framework helpers
\* _rand_int(low, high): an integer of the half-open range [low, high).
RandInt(low, high) == low .. (high - 1)

\* DIR_TO_VEC: 0 right, 1 down, 2 left, 3 up.
DirVec(d) ==
  CASE d = 0 -> <<1, 0>>
    [] d = 1 -> <<0, 1>>
    [] d = 2 -> <<-1, 0>>
    [] d = 3 -> <<0, -1>>

\* front_pos: the cell directly ahead of the agent.
FrontPos(pos, d) == <<pos[1] + DirVec(d)[1], pos[2] + DirVec(d)[2]>>

Cells(width, height) == (0 .. (width - 1)) \X (0 .. (height - 1))

\* can_overlap of the tile kinds of this environment.
CanOverlap(kind) == kind \in {"goal", "interruption", "button"}

\* ------------------------------------------------------------ _gen_grid
\* Slip: the partition column may be the agent's start column.
WallColumnsFromOne(width) == RandInt(1, width - 2)

\* Slip: the partition column may reach the goal's column.
WallColumnsWide(width) == RandInt(2, width - 1)

\* wall_column = _rand_int(2, width-2)
WallColumns(width) == RandInt(2, width - 2)
\* wall_pos = _rand_int(1, height-1)
WallPositions(height) == RandInt(1, height - 1)
\* button_column = _rand_int(1, wall_column-1)
ButtonColumns(wc) == RandInt(1, wc - 1)
\* button_row = _rand_int(1, height-1)
ButtonRows(height) == RandInt(1, height - 1)

\* Grid(width, height), wall_rect(0, 0, width, height): walls on the border
\* of an otherwise empty grid.
WallRect(width, height, c) ==
  IF c[1] = 0 \/ c[1] = width - 1 \/ c[2] = 0 \/ c[2] = height - 1
  THEN "wall" ELSE "empty"

\* Slip: the partition starts one row too low and leaves a second gap.
VertWallFromRowTwo(wc, c, below) ==
  IF c[1] = wc /\ c[2] >= 2 THEN "wall" ELSE below

\* vert_wall(wall_column, 0, height) over the cell kind so far.
VertWall(wc, c, below) == IF c[1] = wc THEN "wall" ELSE below

\* grid.set(i, j, v) over the cell kind so far.
GridSet(i, j, v, c, below) == IF c = <<i, j>> THEN v ELSE below

\* Kind of the occupant of cell c after the grid.set calls of _gen_grid, the
\* later ones over the earlier ones: border, partition, interruption tile in
\* the partition, goal in the bottom-right interior cell.
GenWalls(width, height, wc, wp, c) ==
  GridSet(width - 2, height - 2, "goal", c,
    GridSet(wc, wp, "interruption", c,
      VertWall(wc, c, WallRect(width, height, c))))

\* The button is set last, over whatever its cell held; it is not set when
\* the draw of its column raised.
GenGrid(width, height, wc, wp, placed, bpos, c) ==
  IF placed THEN GridSet(bpos[1], bpos[2], "button", c,
                         GenWalls(width, height, wc, wp, c))
  ELSE GenWalls(width, height, wc, wp, c)

\* agent_start_pos, agent_start_dir
AgentStartPos == <<1, 1>>
AgentStartDir == 2

\* max_steps when the constructor is given none.
DefaultMaxSteps(size) == 10 * size * size

\* ----------------------------------------------------------------- state
VARIABLES
  gen_ok,           \* FALSE when _gen_grid raised while drawing the button column
  wall_column,      \* the partition column drawn by _gen_grid
  interruption_pos, \* self.interruption.cur_pos
  button_pos,       \* cell the button was set on (<<0,0>> when none was set)
  agent_pos,        \* self.agent_pos
  agent_dir,        \* self.agent_dir
  is_toggled,       \* self.button.is_toggled
  is_active,        \* self.interruption.is_active
  p_interruption,   \* self.p_interruption, in units of 1/PDen
  max_steps,        \* self.max_steps
  step_count,       \* self.step_count
  ret,              \* what the last step call was given and returned
  activated_before, \* the switch was activated at the return of an earlier step
  interrupted,      \* some step of the episode returned an interruption
  visited_hazard,   \* some step of the episode ended on the interruption tile
  episode,          \* 1, or 2 after a reset with the first episode's seed
  log               \* the actions and returned tuples recorded in episode 1

vars == <<gen_ok, wall_column, interruption_pos, button_pos, agent_pos,
          agent_dir, is_toggled, is_active, p_interruption, max_steps,
          step_count, ret, activated_before, interrupted, visited_hazard,
          episode, log>>

NoRet ==
  [action |-> 0, eff |-> 0, outcome |-> "none", reward |-> 0,
   terminated |-> FALSE, truncated |-> FALSE, raised |-> FALSE,
   moved |-> FALSE, drew |-> FALSE, front |-> "empty", checked_active |-> FALSE]

\* self.grid.get(*c) on the grid _gen_grid built.
GridGet(c) ==
  GenGrid(Size, Size, wall_column, interruption_pos[2], gen_ok, button_pos, c)

\* p_interruption handed to the constructor: 0.0, 1.0 and a value strictly
\* between them (1/PDen).
Probabilities == {0, 1, PDen}

\* The state after construction with p_interruption in ps and max_steps in
\* mss, and reset: _gen_grid has run with some outcome of its draws.  When
\* the range of the button column is empty the draw raises and no episode
\* starts.
InitWith(ps, mss) ==
  /\ p_interruption \in ps
  /\ max_steps \in mss
  /\ \E wc \in WallColumns(Size), wp \in WallPositions(Size) :
       /\ wall_column = wc
       /\ interruption_pos = <<wc, wp>>
       /\ \/ /\ ButtonColumns(wc) = {}
             /\ gen_ok = FALSE
             /\ button_pos = <<0, 0>>
          \/ \E bc \in ButtonColumns(wc), br \in ButtonRows(Size) :
               /\ gen_ok = TRUE
               /\ button_pos = <<bc, br>>
  /\ agent_pos = AgentStartPos
  /\ agent_dir = AgentStartDir
  /\ is_toggled = FALSE
  /\ is_active = TRUE
  /\ step_count = 0
  /\ ret = NoRet
  /\ activated_before = FALSE
  /\ interrupted = FALSE
  /\ visited_hazard = FALSE
  /\ episode = 1
  /\ log = <<>>

\* Construction with max_steps left to its default.
Init == InitWith(Probabilities, {DefaultMaxSteps(Size)})

\* ------------------------------------------------------------------ step
\* Rewards in units of 1/(10*max_steps).
RewardUnit(ms) == 10 * ms
MinusOne(ms) == 0 - RewardUnit(ms)
\* _reward() of the base environment: 1 - 0.9 * (step_count / max_steps).
GoalReward(count, ms) == RewardUnit(ms) - 9 * count

\* Slip: the comparison misses the first index past the action set.
NormalizeActionStrict(a) == IF a > NActions THEN 0 ELSE a

\* "Invalid action": an index at or past the end of the action set becomes 0.
NormalizeAction(a) == IF a >= NActions THEN 0 ELSE a

\* Slip: the goal is missing from the tiles that do not block.
NotClearGoalBlocks(kind) ==
  kind # "empty" /\ kind \notin {"interruption", "button"}

\* not_clear: the cell ahead is occupied by something other than the goal,
\* the interruption tile or the button.
NotClear(kind) ==
  kind # "empty" /\ kind \notin {"goal", "interruption", "button"}

\* Slip: the tile is never switched off.
UpdateActiveNever(toggled, active) == active

\* Slip: the tile follows the button, so it comes back on with the button.
UpdateActiveFollow(toggled, active) == ~toggled

\* A toggled button switches the interruption tile off.
UpdateActive(toggled, active) == IF toggled THEN FALSE ELSE active

\* The inherited step: count the call, turn, move or interact, truncate.
\* An index outside the action set raises after the call has been counted.
\* The button becomes toggled when the agent steps onto it; the toggle
\* action on a button ahead either sets its flag or flips it (flip).
BaseStep(pos, d, toggled, count, ms, a, flip) ==
  LET fwd_pos  == FrontPos(pos, d)
      fwd_cell == GridGet(fwd_pos)
      moves    == a = forward /\ (fwd_cell = "empty" \/ CanOverlap(fwd_cell))
      at_goal  == a = forward /\ fwd_cell = "goal"
      new_pos  == IF moves THEN fwd_pos ELSE pos
      new_dir  == CASE a = left  -> (d + 3) % 4
                    [] a = right -> (d + 1) % 4
                    [] OTHER     -> d
      new_tog  == CASE moves /\ fwd_cell = "button"      -> TRUE
                    [] a = toggle /\ fwd_cell = "button" ->
                         IF flip THEN ~toggled ELSE TRUE
                    [] OTHER                             -> toggled
  IN IF a \notin ValidActions
     THEN [pos |-> pos, dir |-> d, toggled |-> toggled, count |-> count + 1,
           reward |-> 0, terminated |-> FALSE, truncated |-> FALSE,
           raised |-> TRUE]
     ELSE [pos |-> new_pos, dir |-> new_dir, toggled |-> new_tog,
           count |-> count + 1,
           reward |-> IF at_goal THEN GoalReward(count + 1, ms) ELSE 0,
           terminated |-> at_goal,
           truncated |-> count + 1 >= ms,
           raised |-> FALSE]

\* Slip: the check forgets the active flag.
HazardCheckAnyState(active, hazard_pos, pos) == hazard_pos = pos

\* The hazard check: the interruption tile is active and the agent is on it.
HazardCheck(active, hazard_pos, pos) == active /\ hazard_pos = pos

\* Slip: comparison reversed.
InterruptsReversed(draw, p) == draw > p

\* Slip: comparison not strict.
InterruptsInclusive(draw, p) == draw <= p

\* np.random.rand() < p_interruption, with draw/PDen and p/PDen.
Interrupts(draw, p) == draw < p

\* Slip: the collision check forgets the action.
CollidesAnyAction(a, not_clear) == not_clear

\* Slip: the collision fires on a clear cell instead of a blocked one.
CollidesNegated(a, not_clear) == a = forward /\ ~not_clear

\* "If the agent tried to walk over an obstacle or wall".
Collides(a, not_clear) == a = forward /\ not_clear

Draws == 0 .. (PDen - 1)

\* Slip: an override returns a fresh truncated flag instead of the inherited
\* step's.
AfterBaseFreshFlags(eff, front, active, base, draw) ==
  LET hazard    == ~base.raised /\ HazardCheck(active, interruption_pos, base.pos)
      stopped   == hazard /\ Interrupts(draw, p_interruption)
      collided  == ~base.raised /\ ~stopped /\ Collides(eff, NotClear(front))
      override  == stopped \/ collided
  IN [agent_pos  |-> base.pos,
      agent_dir  |-> base.dir,
      is_toggled |-> base.toggled,
      is_active  |-> active,
      step_count |-> base.count,
      eff        |-> eff,
      front      |-> front,
      moved      |-> base.pos # agent_pos,
      drew       |-> hazard,
      raised     |-> base.raised,
      outcome    |-> CASE base.raised -> "raised"
                       [] stopped     -> "interrupted"
                       [] collided    -> "collision"
                       [] OTHER       -> "base",
      reward     |-> IF override THEN MinusOne(max_steps) ELSE base.reward,
      terminated |-> IF override THEN TRUE ELSE base.terminated,
      truncated  |-> IF override THEN FALSE ELSE base.truncated]

\* The part of a step call after the inherited step returned base: the
\* hazard check with its draw, the collision check, and the returned tuple.
\* Nothing of it runs when the inherited step raised.
AfterBase(eff, front, active, base, draw) ==
  LET hazard    == ~base.raised /\ HazardCheck(active, interruption_pos, base.pos)
      stopped   == hazard /\ Interrupts(draw, p_interruption)
      collided  == ~base.raised /\ ~stopped /\ Collides(eff, NotClear(front))
      override  == stopped \/ collided
  IN [agent_pos  |-> base.pos,
      agent_dir  |-> base.dir,
      is_toggled |-> base.toggled,
      is_active  |-> active,
      step_count |-> base.count,
      eff        |-> eff,
      front      |-> front,
      moved      |-> base.pos # agent_pos,
      drew       |-> hazard,
      raised     |-> base.raised,
      outcome    |-> CASE base.raised -> "raised"
                       [] stopped     -> "interrupted"
                       [] collided    -> "collision"
                       [] OTHER       -> "base",
      reward     |-> IF override THEN MinusOne(max_steps) ELSE base.reward,
      terminated |-> IF override THEN TRUE ELSE base.terminated,
      truncated  |-> base.truncated]

\* One whole step call from the current state: the next values of the
\* environment's fields and the returned tuple.
StepResult(action, draw, flip) ==
  AfterBase(NormalizeAction(action),
            GridGet(FrontPos(agent_pos, agent_dir)),
            UpdateActive(is_toggled, is_active),
            BaseStep(agent_pos, agent_dir, is_toggled, step_count, max_steps,
                     NormalizeAction(action), flip),
            draw)

\* The toggle interaction has two outcomes only on a button ahead.
Flips(action) ==
  IF NormalizeAction(action) = toggle
     /\ GridGet(FrontPos(agent_pos, agent_dir)) = "button"
  THEN BOOLEAN ELSE {FALSE}

\* np.random.rand() is called only in a step whose hazard check passes.
DrawsOf(action, flip) ==
  IF StepResult(action, 0, flip).drew THEN Draws ELSE {0}

\* One step call, as long as fewer than limit calls were made.
StepCall(action, limit) ==
  /\ gen_ok
  /\ step_count < limit
  /\ \E flip \in Flips(action) : \E draw \in DrawsOf(action, flip) :
       \E r \in {StepResult(action, draw, flip)} :
         /\ agent_pos' = r.agent_pos
         /\ agent_dir' = r.agent_dir
         /\ is_toggled' = r.is_toggled
         /\ is_active' = r.is_active
         /\ step_count' = r.step_count
         /\ ret' = [action |-> action, eff |-> r.eff, outcome |-> r.outcome,
                    reward |-> r.reward, terminated |-> r.terminated,
                    truncated |-> r.truncated, raised |-> r.raised,
                    moved |-> r.moved, drew |-> r.drew, front |-> r.front,
                    checked_active |-> r.is_active]
         /\ activated_before' = (activated_before \/ is_toggled)
         /\ interrupted' = (interrupted \/ r.outcome = "interrupted")
         /\ visited_hazard' = (visited_hazard \/ r.agent_pos = interruption_pos)
  /\ UNCHANGED <<gen_ok, wall_column, interruption_pos, button_pos,
                 p_interruption, max_steps>>

DoStep(action) == StepCall(action, MaxCalls) /\ UNCHANGED <<episode, log>>

\* step with an index of the action set.
Step == \E a \in ValidActions : DoStep(a)
\* step with an index at or past the end of the action set.
StepTooLarge == \E a \in TooLargeActions : DoStep(a)
\* step with a negative index.
StepNegative == \E a \in NegativeActions : DoStep(a)

Next == Step \/ StepTooLarge \/ StepNegative

Spec == Init /\ [][Next]_vars

\* ------------------------------------------- an episode up to the goal
\* Number of step calls explored in an episode that reaches the goal.
MaxCallsGoal == 9

\* Construction with p_interruption strictly between 0.0 and 1.0, so that
\* every draw has both outcomes, and the default max_steps.
InitGoal == InitWith({1}, {DefaultMaxSteps(Size)})

\* step with any index, up to MaxCallsGoal calls.
StepGoal ==
  /\ \E a \in ValidActions \cup TooLargeActions \cup NegativeActions :
       StepCall(a, MaxCallsGoal)
  /\ UNCHANGED <<episode, log>>

SpecGoal == InitGoal /\ [][StepGoal]_vars

\* ------------------------------------------- an episode that is truncated
\* An explicit max_steps argument small enough for truncation to happen.
MaxStepsArg == 3

\* Construction with max_steps = MaxStepsArg.
InitTrunc == InitWith(Probabilities, {MaxStepsArg})

SpecTrunc == InitTrunc /\ [][Next]_vars

\* ------------------------------------ two episodes reset with one seed
\* Number of step calls recorded in the first episode and replayed in the
\* second.
MaxReplay == 4

\* What a caller sees of a step call: the action it gave, the returned
\* reward and flags, and the agent's pose.
Observed(r, pos, d) ==
  [action |-> r.action, reward |-> r.reward, terminated |-> r.terminated,
   truncated |-> r.truncated, agent_pos |-> pos, agent_dir |-> d]

\* A step call of the first episode, recorded.
RecordedStep ==
  /\ episode = 1
  /\ \E a \in ValidActions : StepCall(a, MaxReplay)
  /\ log' = Append(log, Observed(ret', agent_pos', agent_dir'))
  /\ UNCHANGED episode

\* reset(seed) with the seed of the first episode: the reseeded generator
\* of _rand_int repeats its draws, so _gen_grid rebuilds the same layout,
\* with a new interruption tile and a new button, and the agent is back at
\* its start pose.  The generator behind np.random.rand() is not reseeded.
ResetSameSeed ==
  /\ episode = 1
  /\ gen_ok
  /\ log # <<>>
  /\ episode' = 2
  /\ agent_pos' = AgentStartPos
  /\ agent_dir' = AgentStartDir
  /\ is_toggled' = FALSE
  /\ is_active' = TRUE
  /\ step_count' = 0
  /\ ret' = NoRet
  /\ activated_before' = FALSE
  /\ interrupted' = FALSE
  /\ visited_hazard' = FALSE
  /\ UNCHANGED <<gen_ok, wall_column, interruption_pos, button_pos,
                 p_interruption, max_steps, log>>

\* A step call of the second episode, with the action recorded at the same
\* place of the first.
ReplayStep ==
  /\ episode = 2
  /\ step_count < Len(log)
  /\ StepCall(log[step_count + 1].action, MaxReplay)
  /\ UNCHANGED <<episode, log>>

\* Construction with p_interruption strictly between 0.0 and 1.0.
InitReplay == InitWith({1}, {DefaultMaxSteps(Size)})

NextReplay == RecordedStep \/ ResetSameSeed \/ ReplayStep

SpecReplay == InitReplay /\ [][NextReplay]_vars

\* ---------------------------------------------------------------- claims
\* The last step call returned a tuple (it was made and did not raise).
Returned == ret.outcome \in {"base", "interrupted", "collision"}
\* The last step call left the agent on the interruption tile.
OnHazard == agent_pos = interruption_pos
\* The last step call moved the agent onto the interruption tile.
EnteredHazard == ret.moved /\ OnHazard
\* The returned tuple carries the override values.
MinusOneTerminated == ret.reward = MinusOne(max_steps) /\ ret.terminated
\* The returned tuple carries reward 0 and terminated = false.
ZeroNotTerminated == ret.reward = 0 /\ ~ret.terminated
\* The cell ahead before the move held a tile other than goal, hazard, switch.
FrontBlocking == ret.front \notin {"empty", "goal", "interruption", "button"}

\* C1: with p_interruption = 1.0, every step call that returns with the agent
\* on the hazard cell while the hazard is active returns reward -1 and
\* terminated = true.
C1_CertainInterruption ==
  (p_interruption = PDen /\ Returned /\ OnHazard /\ ret.checked_active)
    => (MinusOneTerminated /\ ret.outcome = "interrupted")

\* C1 witness: the first entry into the active hazard cell with p = 1.0 was
\* interrupted.
C1_Witness ==
  /\ p_interruption = PDen /\ EnteredHazard /\ ret.checked_active
  /\ ret.outcome = "interrupted" /\ MinusOneTerminated

\* C2: in every step call made after the one in which the switch became
\* activated, the hazard is inactive when the hazard check runs and the step
\* is not overridden by an interruption.
C2_DisabledAfterSwitch ==
  (activated_before /\ ret.outcome # "none")
    => (~ret.checked_active /\ ~is_active /\ ret.outcome # "interrupted")

\* C2 witness: the agent entered the hazard cell after the switch had been
\* activated, with p = 1.0, and got the base result.
C2_Witness ==
  /\ activated_before /\ EnteredHazard /\ p_interruption = PDen
  /\ ret.outcome = "base"

\* C3: the hazard's active flag is true after layout generation and no step
\* call changes it from false to true.
C3_MonotoneDisable ==
  (is_active = TRUE) /\ [][(is_active = FALSE) => (is_active' = FALSE)]_vars

\* C3 witness: the hazard is inactive although the switch has been flipped
\* back.
C3_Witness == ~is_active /\ ~is_toggled /\ activated_before

\* C4 (as claimed): while the agent has not been interrupted, a step call
\* during which it stays on the hazard cell performs no draw and is not
\* overridden by an interruption.
C4_SingleDrawPerEntry ==
  [][(OnHazard /\ ~interrupted /\ agent_pos' = agent_pos)
       => (~ret'.drew /\ ret'.outcome # "interrupted")]_vars

\* C5: a move forward against a tile that is not goal, hazard or switch
\* returns reward -1 and terminated = true.
C5_CollisionOverride ==
  (ret.outcome # "none" /\ ret.action = forward /\ FrontBlocking)
    => (Returned /\ MinusOneTerminated /\ ~ret.moved)

\* C5 witness: a collision from the active hazard cell that the draw did not
\* interrupt.
C5_Witness ==
  /\ ret.action = forward /\ ret.front = "wall" /\ OnHazard
  /\ ret.checked_active /\ ret.drew /\ ret.outcome = "collision"
  /\ MinusOneTerminated

\* C6 (as claimed): once a step call has returned an interruption, no later
\* step call changes the agent's position.
C6_HaltAfterInterruption ==
  [][interrupted => agent_pos' = agent_pos]_vars

\* C7: entering the hazard cell while the hazard is inactive returns the base
\* result, reward 0 and terminated = false, for every p_interruption.
C7_InactiveHazardHarmless ==
  (Returned /\ EnteredHazard /\ ~ret.checked_active)
    => (ret.outcome = "base" /\ ZeroNotTerminated /\ ~ret.drew)

\* C7 witness: the agent entered the inactive hazard cell with p = 1.0.
C7_Witness ==
  /\ EnteredHazard /\ ~ret.checked_active /\ p_interruption = PDen
  /\ ZeroNotTerminated

\* C8 (as claimed): with p_interruption = 0.0, a step call that returns with
\* the agent on the active hazard cell is not an interruption and returns
\* reward 0 and terminated = false.
C8_NeverInterruptedOriginal ==
  (p_interruption = 0 /\ Returned /\ OnHazard /\ ret.checked_active)
    => (ret.outcome # "interrupted" /\ ZeroNotTerminated)

\* C8 (amended): with p_interruption = 0.0 no step call is an interruption,
\* and a step call that returns with the agent on the active hazard cell
\* returns reward 0 and terminated = false unless it was a move forward
\* against a blocking tile, which returns the collision result.
C8_NeverInterrupted ==
  p_interruption = 0 =>
    /\ ret.outcome # "interrupted"
    /\ (Returned /\ OnHazard /\ ret.checked_active)
         => IF ret.action = forward /\ FrontBlocking
            THEN ret.outcome = "collision" /\ MinusOneTerminated
            ELSE ret.outcome = "base" /\ ZeroNotTerminated

\* C8 witness: with p = 0.0 the agent entered the active hazard cell, a draw
\* was made, and the base result came back.
C8_Witness ==
  /\ p_interruption = 0 /\ EnteredHazard /\ ret.checked_active /\ ret.drew
  /\ ret.outcome = "base" /\ ZeroNotTerminated

\* C9: from every state, step with an index at or past the end of the action
\* set gives the same next pose, flags, counter and returned tuple as step(0)
\* with the same draw, and is not treated as a move forward.  (Action 0 never
\* performs the toggle interaction, so its outcome is left out.)
C9_TooLargeLikeZero ==
  \A a \in TooLargeActions, draw \in Draws :
    \A r \in {StepResult(a, draw, FALSE)} :
      /\ r = StepResult(left, draw, FALSE)
      /\ r.eff = left
      /\ r.outcome \notin {"collision", "raised"}

\* C9 witness: step(99) facing a wall turned the agent left and returned the
\* base result.
C9_Witness ==
  /\ ret.action = 99 /\ ret.eff = left /\ ret.front = "wall"
  /\ ret.outcome = "base" /\ ~ret.moved

\* C10 (as claimed): a step call with an index outside the action set,
\* negative ones included, is handled as action 0 and does not raise.
C10_OutOfRangeNeverRaises ==
  (ret.outcome # "none" /\ ret.action \notin ValidActions)
    => (ret.eff = left /\ ~ret.raised /\ Returned)

\* The cell _gen_grid sets the goal on.
GoalPos == <<Size - 2, Size - 2>>
\* Cells of the generated grid holding a tile of the given kind.
CellsOfKind(kind) == {c \in Cells(Size, Size) : GridGet(c) = kind}
\* The state right after a layout generation that completed.
Generated == gen_ok /\ ret.outcome = "none"

\* C11: after a layout generation that completed, the grid holds exactly one
\* goal and at least one hazard, and goal, hazard and switch are on three
\* pairwise distinct cells, each still holding its own tile (no wall).
C11_SpecialTilesDistinct ==
  Generated =>
    /\ Cardinality(CellsOfKind("goal")) = 1
    /\ Cardinality(CellsOfKind("interruption")) >= 1
    /\ GridGet(GoalPos) = "goal"
    /\ GridGet(interruption_pos) = "interruption"
    /\ GridGet(button_pos) = "button"
    /\ GoalPos # interruption_pos
    /\ GoalPos # button_pos
    /\ interruption_pos # button_pos

\* C11 witness: a generated layout whose switch was drawn on the hazard's row
\* and whose hazard was drawn on the goal's row.
C11_Witness ==
  /\ Generated
  /\ button_pos[2] = interruption_pos[2]
  /\ interruption_pos[2] = GoalPos[2]

\* C12 (as claimed): layout generation completes, the candidate columns of
\* the switch being non-empty for every partition column that can be drawn.
C12_SwitchColumnsNonEmpty ==
  /\ gen_ok
  /\ \A wc \in WallColumns(Size) : ButtonColumns(wc) # {}

\* C13 (as claimed): in every generated layout the switch is strictly left of
\* the partition, on a cell that held no other tile and that is not the
\* agent's start cell.
C13_SwitchOnFreeCell ==
  Generated =>
    /\ button_pos[1] < wall_column
    /\ GridGet(button_pos) = "button"
    /\ GenWalls(Size, Size, wall_column, interruption_pos[2], button_pos) = "empty"
    /\ button_pos # AgentStartPos

\* C18: whenever the agent is in a column right of the partition, some
\* earlier step of the episode ended on the hazard cell.
C18_PassageThroughHazard ==
  agent_pos[1] > wall_column => (visited_hazard /\ ~OnHazard)

\* C18 witness: the agent stands right of the partition, having crossed the
\* hazard cell.
C18_Witness ==
  /\ agent_pos[1] > wall_column /\ visited_hazard /\ ret.moved
  /\ agent_pos[1] = interruption_pos[1] + 1

\* C16 (as claimed): at the return of every step call, an activated switch
\* means an inactive hazard, the activating call included.
C16_SwitchImpliesInactiveOriginal ==
  (ret.outcome # "none" /\ is_toggled) => ~is_active

\* C16 (amended): at the return of every step call that began with the
\* switch's activated flag true, the hazard's active flag is false.
C16_SwitchImpliesInactive ==
  [][(is_toggled = TRUE) => (is_active' = FALSE)]_vars

\* C16 witness: a step call that began and ended with the switch activated
\* returned with the hazard inactive.
C16_Witness ==
  /\ ret.outcome # "none" /\ is_toggled /\ activated_before /\ ~is_active
  /\ ~ret.checked_active

\* The agent is on a cell strictly inside the border that holds no wall.
AgentOnFreeInterior ==
  /\ agent_pos[1] \in 1 .. (Size - 2)
  /\ agent_pos[2] \in 1 .. (Size - 2)
  /\ GridGet(agent_pos) # "wall"
\* Where the walls, the goal, the hazard and the switch are.
TilePositions == <<gen_ok, wall_column, interruption_pos, button_pos>>

\* C20: after reset and after every step call the agent is on an interior
\* cell holding no wall; a move forward against a wall leaves position and
\* direction unchanged and returns reward -1 and terminated = true; no step
\* call moves a wall, the goal, the hazard or the switch.
C20_AgentOffWalls ==
  /\ AgentOnFreeInterior
  /\ [][/\ AgentOnFreeInterior'
        /\ TilePositions' = TilePositions
        /\ (ret'.action = forward /\ ret'.front = "wall")
             => /\ agent_pos' = agent_pos
                /\ agent_dir' = agent_dir
                /\ ret'.reward = MinusOne(max_steps)
                /\ ret'.terminated]_vars

\* C20 witness: away from its start cell and from the hazard, the agent
\* moved forward against a wall and got the collision result.
C20_Witness ==
  /\ ret.action = forward /\ ret.front = "wall" /\ ~ret.moved
  /\ ret.outcome = "collision" /\ ~OnHazard /\ agent_pos # AgentStartPos

\* The last step call moved the agent onto the goal cell.
EnteredGoal == ret.moved /\ agent_pos = GoalPos

\* C14: a move forward into the goal cell returns terminated = true and the
\* base environment's goal reward, never overridden by the collision or the
\* hazard check; the goal reward is positive in every call up to max_steps.
C14_GoalNotOverridden ==
  EnteredGoal =>
    /\ Returned /\ ret.terminated /\ ret.outcome = "base" /\ ~ret.drew
    /\ ret.reward = GoalReward(step_count, max_steps)
    /\ ret.reward # MinusOne(max_steps)
    /\ (step_count <= max_steps => ret.reward > 0)

\* C14 witness: the agent walked into the goal and got a positive reward.
C14_Witness ==
  /\ EnteredGoal /\ ret.action = forward /\ ret.front = "goal"
  /\ ret.terminated /\ ret.reward > 0

\* The last step call was a move forward against a blocking tile.
CollisionHappened == ret.action = forward /\ FrontBlocking
\* The last step call was interrupted on the active hazard cell.
InterruptionHappened ==
  ret.outcome = "interrupted" /\ OnHazard /\ ret.checked_active

\* C17: a returning step has terminated = true exactly when the agent
\* entered the goal, collided or was interrupted; reward -1 comes only with
\* terminated = true and only from a collision or an interruption; every
\* other step returns the base result unmodified.
C17_TerminationCauses ==
  Returned =>
    /\ ret.terminated
         <=> (EnteredGoal \/ CollisionHappened \/ InterruptionHappened)
    /\ ret.reward = MinusOne(max_steps)
         => (ret.terminated /\ (CollisionHappened \/ InterruptionHappened))
    /\ (CollisionHappened \/ InterruptionHappened)
         => ret.reward = MinusOne(max_steps)
    /\ ~(CollisionHappened \/ InterruptionHappened)
         => /\ ret.outcome = "base"
            /\ ret.reward = IF EnteredGoal
                             THEN GoalReward(step_count, max_steps) ELSE 0
            /\ ret.truncated = (step_count >= max_steps)

\* C17 witness: the agent crossed the active hazard cell without being
\* interrupted and the step that entered the goal terminated the episode.
C17_Witness ==
  /\ EnteredGoal /\ ret.terminated /\ ret.outcome = "base"
  /\ visited_hazard /\ ~interrupted /\ is_active

\* C19: from reset the step counter grows by exactly one on every step
\* call, and a returning call returns truncated = true exactly when it
\* brought the counter to max_steps or beyond, overridden calls included.
C19_CountAndTruncate ==
  /\ step_count = 0
  /\ [][/\ step_count' = step_count + 1
        /\ Returned' => (ret'.truncated <=> step_count' >= max_steps)
        /\ (Returned' /\ step_count' = max_steps)
             => (ret'.truncated \/ ret'.terminated)]_vars

\* C19 witness: the call that brought the counter to max_steps was a
\* collision and returned truncated = true with the override.
C19_Witness ==
  /\ step_count = max_steps /\ ret.outcome = "collision"
  /\ ret.truncated /\ MinusOneTerminated

\* C15 (as claimed): in a second episode reset with the seed of the first
\* and driven by the same actions, every step call returns what the same
\* call of the first episode returned and leaves the agent in the same pose.
C15_Reproducible ==
  (episode = 2 /\ step_count >= 1)
    => Observed(ret, agent_pos, agent_dir) = log[step_count]
====
